---- MODULE Spec2Model ----
(***************************************************************************)
(* hecs-hierarchy: the Parent<T>/Child<T> components, the mutation         *)
(* operations of HierarchyMut and the traversal iterators of Hierarchy,    *)
(* for one hierarchy tag T over a table of entities.                       *)
(*                                                                         *)
(* Entity handles are index+generation pairs that the table never issues   *)
(* twice; the model numbers them 1..NumEntities in the order of spawning   *)
(* and never re-issues a number, so a despawned handle never resolves.     *)
(***************************************************************************)
EXTENDS Integers, Sequences, FiniteSets, TLC

\* Bounds of the model.
NumEntities == 4
\* Items an iterator is driven for before the walk is declared endless.
IterFuel == 12
\* Calls of the API in one run, and in one run of the deeper specifications.
MaxCalls == 4
MaxCallsDeep == 6
\* The calls of a run made in two tags
MaxCallsTags == 3

Entity == 1..NumEntities
\* Option<Entity>::None, and the "no entity" of a call record.
None == 0

\* usize::MAX.  The targets have 64 bits; the model narrows usize to 16 bits,
\* which still exceeds every count and every IterFuel the bounds allow.
UsizeMax == (2^16) - 1

VARIABLES
    world,            \* hecs::World: entities, spawned, parents (Parent<T>), children (Child<T>),
                      \* other (the Parent<U> and Child<U> of a second tag U)
    overflow_checks,  \* build profile: TRUE when integer overflow panics (debug)
    attached,         \* history: per entity, the entities attached to it and not detached since, in attach order
    last,             \* the last call of the API and what it returned
    calls             \* history: the number of calls made

vars == <<world, overflow_checks, attached, last, calls>>

----------------------------------------------------------------------------
\* components.rs

ParentNew(num_children, last_child) ==
    [num_children |-> num_children, last_child |-> last_child]

\* Mutant of ChildNew: the parent and next arguments change places.
ChildNewParentNextSwapped(parent, next, prev) ==
    [parent |-> next, next |-> parent, prev |-> prev]

ChildNew(parent, next, prev) ==
    [parent |-> parent, next |-> next, prev |-> prev]

----------------------------------------------------------------------------
\* The table (hecs::World through hecs_schedule::GenericWorld)

EmptyWorld ==
    [entities |-> {}, spawned |-> 0, parents |-> << >>, children |-> << >>,
     other |-> [parents |-> << >>, children |-> << >>]]

HasParent(w, e) == e \in DOMAIN w.parents
HasChild(w, e) == e \in DOMAIN w.children

\* The error of try_get / try_get_mut for a component that e does not yield.
GetError(w, e) ==
    IF e \in w.entities THEN "MissingComponent" ELSE "NoSuchEntity"

InsertParent(w, e, p) ==
    [w EXCEPT !.parents = [x \in DOMAIN w.parents \cup {e} |->
                              IF x = e THEN p ELSE w.parents[x]]]

InsertChild(w, e, c) ==
    [w EXCEPT !.children = [x \in DOMAIN w.children \cup {e} |->
                               IF x = e THEN c ELSE w.children[x]]]

RemoveParent(w, e) ==
    [w EXCEPT !.parents = [x \in DOMAIN w.parents \ {e} |-> w.parents[x]]]

\* Mutant of RemoveChild: the Child component of every tag is removed.
RemoveChildOfEveryTag(w, e) ==
    [w EXCEPT !.children = [x \in DOMAIN w.children \ {e} |-> w.children[x]],
              !.other.children =
                  [x \in DOMAIN w.other.children \ {e} |-> w.other.children[x]]]

RemoveChild(w, e) ==
    [w EXCEPT !.children = [x \in DOMAIN w.children \ {e} |-> w.children[x]]]

\* World::spawn: a fresh handle.
spawn(w) ==
    [w EXCEPT !.entities = @ \cup {w.spawned + 1}, !.spawned = @ + 1]

\* The table as the operations of tag U see it: the columns of T and U change
\* places (Parent<U> and Child<U> are component types of their own).
OtherTag(w) ==
    [w EXCEPT !.parents = w.other.parents, !.children = w.other.children,
              !.other = [parents |-> w.parents, children |-> w.children]]

\* The components of the live entities alone.
Restrict(f, live) == [x \in DOMAIN f \cap live |-> f[x]]

\* World::despawn: the entity and all its components, of every tag, go.
despawn(w, e) ==
    IF e \in w.entities
    THEN LET live == w.entities \ {e}
         IN  [w |-> [w EXCEPT !.entities = live,
                              !.parents = Restrict(w.parents, live),
                              !.children = Restrict(w.children, live),
                              !.other = [parents |-> Restrict(w.other.parents, live),
                                         children |-> Restrict(w.other.children, live)]],
              res |-> "Ok"]
    ELSE [w |-> w, res |-> "NoSuchEntity"]

\* Mutant of first_child: the anchor itself, its next link not followed.
first_child_is_last_child(w, p) ==
    IF HasChild(w, p.last_child) THEN p.last_child ELSE None

\* Parent::first_child and Parent::view_first_child: None when last_child
\* yields no Child<T>.
first_child(w, p) ==
    IF HasChild(w, p.last_child) THEN w.children[p.last_child].next ELSE None

----------------------------------------------------------------------------
\* iter.rs: ChildrenIter

ChildrenIterNew(num_children, current) ==
    [remaining |-> num_children, current |-> current]

\* ChildrenIter::next: the iterator after the call and the item (None: no item).
ChildrenIterNext(w, it) ==
    IF it.remaining = 0
    THEN [it |-> it, item |-> None]
    ELSE LET it1 == [it EXCEPT !.remaining = @ - 1]
         IN  IF it.current = None \/ ~HasChild(w, it.current)
             THEN [it |-> it1, item |-> None]
             ELSE [it |-> [it1 EXCEPT !.current = w.children[it.current].next],
                   item |-> it.current]

\* Mutant of children: an entity without Parent<T> is walked as if it were
\* the one child of itself.
children_of_no_parent_walks(w, parent) ==
    IF HasParent(w, parent)
    THEN LET p == w.parents[parent]
             first == first_child(w, p)
         IN  IF first = None
             THEN ChildrenIterNew(0, None)
             ELSE ChildrenIterNew(p.num_children, first)
    ELSE ChildrenIterNew(1, parent)

\* Hierarchy::children
children(w, parent) ==
    IF HasParent(w, parent)
    THEN LET p == w.parents[parent]
             first == first_child(w, p)
         IN  IF first = None
             THEN ChildrenIterNew(0, None)
             ELSE ChildrenIterNew(p.num_children, first)
    ELSE ChildrenIterNew(0, None)

\* ChildrenIter::count (and size_hint): the remaining count, no item is fetched.
ChildrenIterCount(it) == it.remaining

\* Iterator::collect on a ChildrenIter: next() until it yields None.
\* status "cutoff": more than fuel items were yielded and the walk was left.
RECURSIVE ChildrenCollect(_, _, _, _)
ChildrenCollect(w, it, out, fuel) ==
    LET r == ChildrenIterNext(w, it)
    IN  IF r.item = None THEN [items |-> out, status |-> "done"]
        ELSE IF fuel = 0 THEN [items |-> out, status |-> "cutoff"]
        ELSE ChildrenCollect(w, r.it, Append(out, r.item), fuel - 1)

\* children::<T>(parent).collect::<Vec<Entity>>()
CollectChildren(w, parent) ==
    ChildrenCollect(w, children(w, parent), << >>, IterFuel)

----------------------------------------------------------------------------
\* iter.rs: DepthFirstIterator

StackFrame(current, remaining) ==
    [current |-> current, remaining |-> remaining]

\* DepthFirstIterator::new: the initial stack.
DepthFirstIteratorNew(w, root) ==
    IF HasParent(w, root)
    THEN LET p == w.parents[root]
             first == first_child(w, p)
         IN  IF first = None THEN << >>
             ELSE << StackFrame(first, p.num_children) >>
    ELSE << >>

\* The push of a frame for an entity that holds Parent<T>:
\* view_first_child(..).unwrap() panics when last_child yields no Child<T>.
PushPanics(w, current) ==
    first_child(w, w.parents[current]) = None

PushFrame(w, stack, current) ==
    LET p == w.parents[current]
    IN  Append(stack, StackFrame(first_child(w, p), p.num_children))

\* Mutant of DepthFirstIteratorNext: when a frame is used up it is popped and
\* the call returns None, the frames below are not asked.
DepthFirstIteratorNextEndsAtPop(w, stack) ==
    IF stack = << >>
    THEN [stack |-> stack, item |-> None, panic |-> FALSE]
    ELSE LET n == Len(stack)
             top == stack[n]
         IN  IF top.remaining > 0
             THEN IF ~HasChild(w, top.current)
                  THEN [stack |-> stack, item |-> None, panic |-> TRUE]
                  ELSE LET current == top.current
                           data == w.children[current]
                           st1 == [stack EXCEPT ![n] =
                                      StackFrame(data.next, top.remaining - 1)]
                       IN  IF HasParent(w, current)
                           THEN IF PushPanics(w, current)
                                THEN [stack |-> st1, item |-> None, panic |-> TRUE]
                                ELSE [stack |-> PushFrame(w, st1, current),
                                      item |-> current, panic |-> FALSE]
                           ELSE [stack |-> st1, item |-> current, panic |-> FALSE]
             ELSE [stack |-> SubSeq(stack, 1, n - 1), item |-> None, panic |-> FALSE]

\* DepthFirstIterator::next: the stack after the call, the item (None: no
\* item) and whether an unwrap panicked.
RECURSIVE DepthFirstIteratorNext(_, _)
DepthFirstIteratorNext(w, stack) ==
    IF stack = << >>
    THEN [stack |-> stack, item |-> None, panic |-> FALSE]
    ELSE LET n == Len(stack)
             top == stack[n]
         IN  IF top.remaining > 0
             THEN IF ~HasChild(w, top.current)
                  THEN [stack |-> stack, item |-> None, panic |-> TRUE]
                  ELSE LET current == top.current
                           data == w.children[current]
                           st1 == [stack EXCEPT ![n] =
                                      StackFrame(data.next, top.remaining - 1)]
                       IN  IF HasParent(w, current)
                           THEN IF PushPanics(w, current)
                                THEN [stack |-> st1, item |-> None, panic |-> TRUE]
                                ELSE [stack |-> PushFrame(w, st1, current),
                                      item |-> current, panic |-> FALSE]
                           ELSE [stack |-> st1, item |-> current, panic |-> FALSE]
             ELSE DepthFirstIteratorNext(w, SubSeq(stack, 1, n - 1))

RECURSIVE DepthFirstCollect(_, _, _, _)
DepthFirstCollect(w, stack, out, fuel) ==
    LET r == DepthFirstIteratorNext(w, stack)
    IN  IF r.panic THEN [items |-> out, status |-> "panic"]
        ELSE IF r.item = None THEN [items |-> out, status |-> "done"]
        ELSE IF fuel = 0 THEN [items |-> out, status |-> "cutoff"]
        ELSE DepthFirstCollect(w, r.stack, Append(out, r.item), fuel - 1)

\* descendants_depth_first::<T>(root).collect::<Vec<_>>()
CollectDepthFirst(w, root) ==
    DepthFirstCollect(w, DepthFirstIteratorNew(w, root), << >>, IterFuel)

----------------------------------------------------------------------------
\* iter.rs: DepthFirstVisitor.  The accept function is the set of entities it
\* accepts; asked records the entities passed to it, in the order of the calls.

\* Mutant of DepthFirstVisitorNew: the first frame starts at last_child, not
\* at the child after it.
DepthFirstVisitorNewFromLastChild(w, root, accept) ==
    IF HasParent(w, root)
    THEN LET p == w.parents[root]
             first == IF HasChild(w, p.last_child) THEN p.last_child ELSE None
         IN  [stack |-> IF root \in accept /\ first # None
                        THEN << StackFrame(first, p.num_children) >>
                        ELSE << >>,
              asked |-> << root >>]
    ELSE [stack |-> << >>, asked |-> << >>]

\* DepthFirstVisitor::new
DepthFirstVisitorNew(w, root, accept) ==
    IF HasParent(w, root)
    THEN LET p == w.parents[root]
             first == first_child(w, p)
         IN  [stack |-> IF root \in accept /\ first # None
                        THEN << StackFrame(first, p.num_children) >>
                        ELSE << >>,
              asked |-> << root >>]
    ELSE [stack |-> << >>, asked |-> << >>]

\* Mutant of DepthFirstVisitorNext: a rejected entity is passed over, but the
\* frame of its children is pushed all the same.
RECURSIVE DepthFirstVisitorNextDescendsRejected(_, _, _, _)
DepthFirstVisitorNextDescendsRejected(w, accept, it, fuel) ==
    IF it.stack = << >>
    THEN [it |-> it, item |-> None, status |-> "done"]
    ELSE LET n == Len(it.stack)
             top == it.stack[n]
         IN  IF top.remaining > 0
             THEN IF ~HasChild(w, top.current)
                  THEN [it |-> it, item |-> None, status |-> "panic"]
                  ELSE LET current == top.current
                           data == w.children[current]
                           st1 == [it.stack EXCEPT ![n] =
                                      StackFrame(data.next, top.remaining - 1)]
                           it1 == [stack |-> st1, asked |-> Append(it.asked, current)]
                           pushed == [it1 EXCEPT !.stack = PushFrame(w, st1, current)]
                       IN  IF HasParent(w, current) /\ PushPanics(w, current)
                           THEN [it |-> it1, item |-> None, status |-> "panic"]
                           ELSE IF current \notin accept
                           THEN IF fuel = 0
                                THEN [it |-> it1, item |-> None, status |-> "cutoff"]
                                ELSE DepthFirstVisitorNextDescendsRejected(
                                         w, accept,
                                         IF HasParent(w, current) THEN pushed ELSE it1,
                                         fuel - 1)
                           ELSE [it |-> IF HasParent(w, current) THEN pushed ELSE it1,
                                 item |-> current, status |-> "done"]
             ELSE DepthFirstVisitorNextDescendsRejected(
                      w, accept,
                      [it EXCEPT !.stack = SubSeq(it.stack, 1, n - 1)], fuel)

\* DepthFirstVisitor::next: the visitor after the call, the item (None: no
\* item) and whether an unwrap panicked.  fuel bounds the rejected entities
\* passed over in one call.
RECURSIVE DepthFirstVisitorNext(_, _, _, _)
DepthFirstVisitorNext(w, accept, it, fuel) ==
    IF it.stack = << >>
    THEN [it |-> it, item |-> None, status |-> "done"]
    ELSE LET n == Len(it.stack)
             top == it.stack[n]
         IN  IF top.remaining > 0
             THEN IF ~HasChild(w, top.current)
                  THEN [it |-> it, item |-> None, status |-> "panic"]
                  ELSE LET current == top.current
                           data == w.children[current]
                           st1 == [it.stack EXCEPT ![n] =
                                      StackFrame(data.next, top.remaining - 1)]
                           it1 == [stack |-> st1, asked |-> Append(it.asked, current)]
                       IN  IF current \notin accept
                           THEN IF fuel = 0
                                THEN [it |-> it1, item |-> None, status |-> "cutoff"]
                                ELSE DepthFirstVisitorNext(w, accept, it1, fuel - 1)
                           ELSE IF HasParent(w, current)
                           THEN IF PushPanics(w, current)
                                THEN [it |-> it1, item |-> None, status |-> "panic"]
                                ELSE [it |-> [it1 EXCEPT !.stack =
                                                 PushFrame(w, st1, current)],
                                      item |-> current, status |-> "done"]
                           ELSE [it |-> it1, item |-> current, status |-> "done"]
             ELSE DepthFirstVisitorNext(
                      w, accept,
                      [it EXCEPT !.stack = SubSeq(it.stack, 1, n - 1)], fuel)

RECURSIVE DepthFirstVisitorCollect(_, _, _, _, _)
DepthFirstVisitorCollect(w, accept, it, out, fuel) ==
    LET r == DepthFirstVisitorNext(w, accept, it, IterFuel)
    IN  IF r.status # "done"
        THEN [items |-> out, status |-> r.status, asked |-> r.it.asked]
        ELSE IF r.item = None
        THEN [items |-> out, status |-> "done", asked |-> r.it.asked]
        ELSE IF fuel = 0
        THEN [items |-> out, status |-> "cutoff", asked |-> r.it.asked]
        ELSE DepthFirstVisitorCollect(w, accept, r.it, Append(out, r.item), fuel - 1)

\* visit::<T, _>(root, accept).collect::<Vec<_>>()
CollectVisit(w, root, accept) ==
    DepthFirstVisitorCollect(w, accept, DepthFirstVisitorNew(w, root, accept),
                             << >>, IterFuel)

----------------------------------------------------------------------------
\* iter.rs: BreadthFirstIterator

\* BreadthFirstIterator::new: the queue holds the children of root.
BreadthFirstIteratorNew(w, root) ==
    LET c == CollectChildren(w, root)
    IN  [queue |-> c.items, status |-> c.status]

\* Mutant of BreadthFirstIteratorNext: the children go to the front.
BreadthFirstIteratorNextPushFront(w, queue) ==
    IF queue = << >>
    THEN [queue |-> queue, item |-> None, status |-> "done"]
    ELSE LET front == Head(queue)
             c == CollectChildren(w, front)
         IN  [queue |-> c.items \o Tail(queue), item |-> front, status |-> c.status]

\* BreadthFirstIterator::next: pop the front, push its children at the back.
BreadthFirstIteratorNext(w, queue) ==
    IF queue = << >>
    THEN [queue |-> queue, item |-> None, status |-> "done"]
    ELSE LET front == Head(queue)
             c == CollectChildren(w, front)
         IN  [queue |-> Tail(queue) \o c.items, item |-> front, status |-> c.status]

RECURSIVE BreadthFirstCollect(_, _, _, _)
BreadthFirstCollect(w, queue, out, fuel) ==
    LET r == BreadthFirstIteratorNext(w, queue)
    IN  IF r.status # "done" THEN [items |-> out, status |-> r.status]
        ELSE IF r.item = None THEN [items |-> out, status |-> "done"]
        ELSE IF fuel = 0 THEN [items |-> out, status |-> "cutoff"]
        ELSE BreadthFirstCollect(w, r.queue, Append(out, r.item), fuel - 1)

\* descendants_breadth_first::<T>(root).collect::<Vec<_>>()
CollectBreadthFirst(w, root) ==
    LET it == BreadthFirstIteratorNew(w, root)
    IN  IF it.status # "done" THEN [items |-> << >>, status |-> it.status]
        ELSE BreadthFirstCollect(w, it.queue, << >>, IterFuel)

----------------------------------------------------------------------------
\* iter.rs: AncestorIter

\* Mutant of AncestorIterNext: the walk ends before the entity that holds no
\* Child<T>.
AncestorIterNextStopsBeforeRoot(w, current) ==
    IF HasChild(w, current) /\ HasChild(w, w.children[current].parent)
    THEN [current |-> w.children[current].parent,
          item |-> w.children[current].parent]
    ELSE [current |-> current, item |-> None]

\* AncestorIter::next: the cursor after the call and the item (None: no item).
AncestorIterNext(w, current) ==
    IF HasChild(w, current)
    THEN [current |-> w.children[current].parent,
          item |-> w.children[current].parent]
    ELSE [current |-> current, item |-> None]

RECURSIVE AncestorCollect(_, _, _, _)
AncestorCollect(w, current, out, fuel) ==
    LET r == AncestorIterNext(w, current)
    IN  IF r.item = None THEN [items |-> out, status |-> "done"]
        ELSE IF fuel = 0 THEN [items |-> out, status |-> "cutoff"]
        ELSE AncestorCollect(w, r.current, Append(out, r.item), fuel - 1)

\* ancestors::<T>(child).collect::<Vec<_>>()
CollectAncestors(w, child) ==
    AncestorCollect(w, child, << >>, IterFuel)

----------------------------------------------------------------------------
\* iter.rs: the five iterators as values of one kind, so that a caller can
\* hold any of them and call next() on it.

ChildrenOf(w, e) == [kind |-> "children", state |-> children(w, e)]

AncestorsOf(w, e) == [kind |-> "ancestors", state |-> e]

DepthFirstOf(w, e) ==
    [kind |-> "depth_first", state |-> DepthFirstIteratorNew(w, e)]

VisitOf(w, e, accept) ==
    [kind |-> "visit", state |-> DepthFirstVisitorNew(w, e, accept),
     accept |-> accept]

\* BreadthFirstIterator::new collects the children of the root: an iterator
\* exists only when that collect ends.
BreadthFirstOf(w, e) ==
    [kind |-> "breadth_first", state |-> BreadthFirstIteratorNew(w, e).queue]

\* Iterator::next: the iterator after the call, the item (None: no item) and
\* the status of the call ("done": it returned).
IteratorNext(w, it) ==
    CASE it.kind = "children" ->
            LET r == ChildrenIterNext(w, it.state)
            IN  [it |-> [it EXCEPT !.state = r.it], item |-> r.item,
                 status |-> "done"]
      [] it.kind = "ancestors" ->
            LET r == AncestorIterNext(w, it.state)
            IN  [it |-> [it EXCEPT !.state = r.current], item |-> r.item,
                 status |-> "done"]
      [] it.kind = "depth_first" ->
            LET r == DepthFirstIteratorNext(w, it.state)
            IN  [it |-> [it EXCEPT !.state = r.stack], item |-> r.item,
                 status |-> IF r.panic THEN "panic" ELSE "done"]
      [] it.kind = "visit" ->
            LET r == DepthFirstVisitorNext(w, it.accept, it.state, IterFuel)
            IN  [it |-> [it EXCEPT !.state = r.it], item |-> r.item,
                 status |-> r.status]
      [] it.kind = "breadth_first" ->
            LET r == BreadthFirstIteratorNext(w, it.state)
            IN  [it |-> [it EXCEPT !.state = r.queue], item |-> r.item,
                 status |-> r.status]

\* next() is called until it returns None: the iterator as that call leaves
\* it.  ended is FALSE when a call panics or does not return, or when more
\* than fuel items are yielded.
RECURSIVE Exhaust(_, _, _)
Exhaust(w, it, fuel) ==
    LET r == IteratorNext(w, it)
    IN  IF r.status # "done" THEN [it |-> r.it, ended |-> FALSE]
        ELSE IF r.item = None THEN [it |-> r.it, ended |-> TRUE]
        ELSE IF fuel = 0 THEN [it |-> r.it, ended |-> FALSE]
        ELSE Exhaust(w, r.it, fuel - 1)

----------------------------------------------------------------------------
\* hierarchy.rs: HierarchyMut.  Each operation yields the table after the
\* call (w), the kind of result (res: "Ok", "NoSuchEntity",
\* "MissingComponent", "Panic", or "Cutoff" when a collect was left) and the
\* entities of an Ok result (ret).

Result(w, res, ret) == [w |-> w, res |-> res, ret |-> ret]

\* p.num_children += 1
Increment(n) == IF n = UsizeMax THEN 0 ELSE n + 1
\* parent.num_children -= 1
Decrement(n) == IF n = 0 THEN UsizeMax ELSE n - 1

\* Mutant of try_insert_child: the component is inserted without asking
\* whether the entity lives.
try_insert_child_unchecked(w, e, c) ==
    Result(InsertChild(w, e, c), "Ok", << >>)

\* WorldExt::try_insert of a Child<T>
try_insert_child(w, e, c) ==
    IF e \in w.entities
    THEN Result(InsertChild(w, e, c), "Ok", << >>)
    ELSE Result(w, "NoSuchEntity", << >>)

\* HierarchyMut::attach, the branch taken when parent holds Parent<T>
attach_existing(w, child, parent) ==
    LET p == w.parents[parent]
        prev == p.last_child
        w1 == [w EXCEPT !.parents[parent] =
                  ParentNew(Increment(p.num_children), child)]
    IN  IF p.num_children = UsizeMax /\ overflow_checks
        THEN Result(w, "Panic", << >>)
        ELSE IF ~HasChild(w1, prev)
        THEN Result(w1, GetError(w1, prev), << >>)
        ELSE LET next == w1.children[prev].next
                 w2 == [w1 EXCEPT !.children[prev].next = child]
             IN  IF ~HasChild(w2, next)
                 THEN Result(w2, GetError(w2, next), << >>)
                 ELSE LET w3 == [w2 EXCEPT !.children[next].prev = child]
                          ins == try_insert_child(w3, child,
                                                  ChildNew(parent, next, prev))
                      IN  IF ins.res = "Ok"
                          THEN Result(ins.w, "Ok", << child >>)
                          ELSE ins

\* HierarchyMut::attach, the branch taken when parent yields no Parent<T>
attach_first(w, child, parent) ==
    IF parent \notin w.entities
    THEN Result(w, "NoSuchEntity", << >>)
    ELSE LET w1 == InsertParent(w, parent, ParentNew(1, child))
             ins == try_insert_child(w1, child, ChildNew(parent, child, child))
         IN  IF ins.res = "Ok"
             THEN Result(ins.w, "Ok", << child >>)
             ELSE ins

\* HierarchyMut::attach
attach(w, child, parent) ==
    IF HasParent(w, parent)
    THEN attach_existing(w, child, parent)
    ELSE attach_first(w, child, parent)

\* HierarchyMut::attach_new
attach_new(w, parent) ==
    attach(spawn(w), w.spawned + 1, parent)

\* HierarchyMut::detach
detach(w, child) ==
    IF ~HasChild(w, child)
    THEN Result(w, GetError(w, child), << >>)
    ELSE LET data == w.children[child]
             parent == data.parent
             prev == data.prev
             next == data.next
         IN  IF ~HasChild(w, prev)
             THEN Result(w, GetError(w, prev), << >>)
             ELSE LET w1 == [w EXCEPT !.children[prev].next = next]
                  IN  IF ~HasChild(w1, next)
                      THEN Result(w1, GetError(w1, next), << >>)
                      ELSE LET w2 == [w1 EXCEPT !.children[next].prev = prev]
                           IN  IF ~HasParent(w2, parent)
                               THEN Result(w2, GetError(w2, parent), << >>)
                               ELSE LET p == w2.parents[parent]
                                        last_child ==
                                            IF p.last_child = child
                                            THEN prev ELSE p.last_child
                                    IN  IF p.num_children = 0 /\ overflow_checks
                                        THEN Result(w2, "Panic", << >>)
                                        ELSE Result(
                                            [w2 EXCEPT !.parents[parent] =
                                                ParentNew(Decrement(p.num_children),
                                                          last_child)],
                                            "Ok", << >>)

\* children.iter().try_for_each(|child| try_remove_one::<Child<T>>(*child)):
\* stops at the first child that yields no Child<T>.
RECURSIVE remove_children(_, _)
remove_children(w, cs) ==
    IF cs = << >> THEN Result(w, "Ok", << >>)
    ELSE IF ~HasChild(w, Head(cs)) THEN Result(w, "NoSuchEntity", << >>)
    ELSE remove_children(RemoveChild(w, Head(cs)), Tail(cs))

\* HierarchyMut::detach_children
detach_children(w, parent) ==
    LET c == CollectChildren(w, parent)
        r == remove_children(w, c.items)
    IN  IF c.status # "done" THEN Result(w, "Cutoff", << >>)
        ELSE IF r.res # "Ok" THEN r
        ELSE IF ~HasParent(r.w, parent) THEN Result(r.w, "Panic", << >>)
        ELSE Result(RemoveParent(r.w, parent), "Ok", c.items)

\* HierarchyMut::detach_all
detach_all(w, entity) ==
    LET r == detach_children(w, entity)
    IN  IF r.res # "Ok" THEN r
        ELSE detach(r.w, entity)

\* Hierarchy::parent: the parent, or None with the error kind.
parent_of(w, child) ==
    IF HasChild(w, child)
    THEN [res |-> "Ok", ret |-> w.children[child].parent]
    ELSE [res |-> GetError(w, child), ret |-> None]

\* Hierarchy::root: the loop follows parent() while it returns Ok, ends on
\* MissingComponent with the entity reached, and returns any other error.
\* res "Cutoff": the loop was left after fuel steps.
RECURSIVE root_from(_, _, _)
root_from(w, cur, fuel) ==
    LET r == parent_of(w, cur)
    IN  IF r.res = "Ok"
        THEN IF fuel = 0 THEN [res |-> "Cutoff", ret |-> None]
             ELSE root_from(w, r.ret, fuel - 1)
        ELSE IF r.res = "MissingComponent" THEN [res |-> "Ok", ret |-> cur]
        ELSE [res |-> r.res, ret |-> None]

root(w, child) == root_from(w, child, IterFuel)

\* Hierarchy::roots: the entities the query Without<&Parent<T>, &Child<T>>
\* yields (the order is that of the table; the model keeps the set).
roots(w) ==
    {e \in w.entities : HasParent(w, e) /\ ~HasChild(w, e)}

\* to_despawn.iter().for_each(|entity| { let _ = self.despawn(*entity); })
RECURSIVE despawn_each(_, _)
despawn_each(w, es) ==
    IF es = << >> THEN w
    ELSE despawn_each(despawn(w, Head(es)).w, Tail(es))

\* HierarchyMut::despawn_all
despawn_all(w, parent) ==
    LET to_despawn == CollectDepthFirst(w, parent)
        d == detach(w, parent)
    IN  IF to_despawn.status = "panic" THEN Result(w, "Panic", << >>)
        ELSE IF to_despawn.status = "cutoff" THEN Result(w, "Cutoff", << >>)
        ELSE IF d.res = "Panic" THEN d
        ELSE Result(despawn(despawn_each(d.w, to_despawn.items), parent).w,
                    "Ok", << >>)

\* The table as the operations of tag Child<T> see it: no call attaches
\* anything in that tag, its columns are empty.
ChildTag(w) == [w EXCEPT !.parents = << >>, !.children = << >>]

\* Back from the view v of tag Child<T> to the table: the columns of T are
\* those of w, for the entities v still holds.
FromChildTag(w, v) ==
    [v EXCEPT !.parents = Restrict(w.parents, v.entities),
              !.children = Restrict(w.children, v.entities)]

\* children.iter().for_each(|child| self.despawn_all::<Child<T>>(*child))
RECURSIVE despawn_all_each(_, _)
despawn_all_each(w, cs) ==
    IF cs = << >> THEN w
    ELSE despawn_all_each(
             FromChildTag(w, despawn_all(ChildTag(w), Head(cs)).w), Tail(cs))

\* HierarchyMut::despawn_children
despawn_children(w, parent) ==
    LET c == CollectChildren(w, parent)
        w1 == despawn_all_each(w, c.items)
    IN  IF c.status # "done" THEN Result(w, "Cutoff", << >>)
        ELSE IF ~HasParent(w1, parent) THEN Result(w1, "Panic", << >>)
        ELSE Result(RemoveParent(w1, parent), "Ok", << >>)


----------------------------------------------------------------------------
\* builder_clone.rs, deferred_builder.rs: a builder is a node with the
\* builders of its children, [children |-> << builder, ... >>].

RECURSIVE TreeBuilders(_), BuilderForests(_)
\* The builders of exactly n nodes.
TreeBuilders(n) == {[children |-> cs] : cs \in BuilderForests(n - 1)}

\* The sequences of builders of m nodes in all.
BuilderForests(m) ==
    IF m = 0 THEN {<< >>}
    ELSE UNION {{<< t >> \o f : t \in TreeBuilders(k), f \in BuilderForests(m - k)} :
                   k \in 1..m}

RECURSIVE BuilderSize(_), ForestSize(_)
BuilderSize(b) == 1 + ForestSize(b.children)

ForestSize(bs) ==
    IF bs = << >> THEN 0 ELSE BuilderSize(Head(bs)) + ForestSize(Tail(bs))

\* Mutant of attach_built: the child and the parent change places.
attach_built_swapped(w, child, parent) ==
    LET a == attach(w, parent, child)
    IN  IF a.res = "Ok" THEN a ELSE Result(a.w, "Panic", << >>)

\* world.attach::<T>(child, parent).unwrap()
attach_built(w, child, parent) ==
    LET a == attach(w, child, parent)
    IN  IF a.res = "Ok" THEN a ELSE Result(a.w, "Panic", << >>)

\* TreeBuilderClone::spawn and DeferredTreeBuilder::spawn: the table after the
\* call, the result kind, and node: the entity spawned for the builder with
\* the nodes of its children (only node.entity is returned by the code).
RECURSIVE tree_spawn(_, _), tree_spawn_children(_, _, _, _)
tree_spawn(w, b) ==
    tree_spawn_children(spawn(w), w.spawned + 1, b.children, << >>)

\* for child in self.children { let child = child.spawn(world); attach .. }
tree_spawn_children(w, parent, cs, done) ==
    IF cs = << >>
    THEN [w |-> w, res |-> "Ok", node |-> [entity |-> parent, children |-> done]]
    ELSE LET c == tree_spawn(w, Head(cs))
             a == attach_built(c.w, c.node.entity, parent)
         IN  IF c.res # "Ok" THEN c
             ELSE IF a.res # "Ok"
             THEN [w |-> a.w, res |-> a.res,
                   node |-> [entity |-> parent, children |-> done]]
             ELSE tree_spawn_children(a.w, parent, Tail(cs), Append(done, c.node))

----------------------------------------------------------------------------
\* The history of attachment: what the calls made so far say the tree is.

Range(seq) == {seq[i] : i \in 1..Len(seq)}

Without(seq, e) == SelectSeq(seq, LAMBDA x : x # e)

\* The entity e is attached to (None: not attached).
AttachedParent(att, e) ==
    IF \E q \in Entity : e \in Range(att[q])
    THEN CHOOSE q \in Entity : e \in Range(att[q])
    ELSE None

IsAttached(att, e) == AttachedParent(att, e) # None

RECURSIVE AttachedAncestors(_, _, _)
AttachedAncestors(att, e, n) ==
    LET q == AttachedParent(att, e)
    IN  IF q = None \/ n = 0 THEN {}
        ELSE {q} \cup AttachedAncestors(att, q, n - 1)

NoteDetach(att, e) == [q \in Entity |-> Without(att[q], e)]

NoteAttach(att, e, q) == [NoteDetach(att, e) EXCEPT ![q] = Append(@, e)]

NoteDetachChildren(att, q) == [att EXCEPT ![q] = << >>]

NoteDetachAll(att, e) == NoteDetach(NoteDetachChildren(att, e), e)

\* The entities below r.
Below(att, r) ==
    {e \in Entity : r \in AttachedAncestors(att, e, NumEntities)}

NoteDespawnAll(att, p) ==
    LET gone == {p} \cup Below(att, p)
    IN  [q \in Entity |->
            IF q \in gone THEN << >>
            ELSE SelectSeq(att[q], LAMBDA x : x \notin gone)]

\* World::despawn of e: e is no child any more; what was attached to e still
\* names it.
NoteDespawn(att, e) == NoteDetach(att, e)

\* despawn_children of p: everything below p is gone, p stays.
NoteDespawnChildren(att, p) ==
    LET gone == Below(att, p)
    IN  [q \in Entity |->
            IF q \in gone THEN << >>
            ELSE SelectSeq(att[q], LAMBDA x : x \notin gone)]

\* A tree spawned by a builder: every node has its children attached, in the
\* order of the builder.
RECURSIVE NoteTree(_, _), NoteForest(_, _)
NoteTree(att, node) ==
    NoteForest([att EXCEPT ![node.entity] =
                   [i \in 1..Len(node.children) |-> node.children[i].entity]],
               node.children)

NoteForest(att, nodes) ==
    IF nodes = << >> THEN att
    ELSE NoteForest(NoteTree(att, Head(nodes)), Tail(nodes))

\* A call record: the operation, its entity arguments, the result kind and the
\* entities of the result.
Call(op, child, parent, r) ==
    [op |-> op, child |-> child, parent |-> parent, res |-> r.res, ret |-> r.ret]

----------------------------------------------------------------------------
\* The calls.  Each takes the whole call: the table after it, its result, and
\* what it means for the history of attachment when it returns Ok.

AttachCall(child, parent) ==
    LET r == attach(world, child, parent)
    IN  /\ world' = r.w
        /\ last' = Call("attach", child, parent, r)
        /\ attached' = IF r.res = "Ok" THEN NoteAttach(attached, child, parent)
                       ELSE attached
        /\ UNCHANGED overflow_checks

AttachNewCall(parent) ==
    LET r == attach_new(world, parent)
    IN  /\ world' = r.w
        /\ last' = Call("attach_new", world.spawned + 1, parent, r)
        /\ attached' = IF r.res = "Ok"
                       THEN NoteAttach(attached, world.spawned + 1, parent)
                       ELSE attached
        /\ UNCHANGED overflow_checks

DetachCall(child) ==
    LET r == detach(world, child)
    IN  /\ world' = r.w
        /\ last' = Call("detach", child, AttachedParent(attached, child), r)
        /\ attached' = IF r.res = "Ok" THEN NoteDetach(attached, child)
                       ELSE attached
        /\ UNCHANGED overflow_checks

DetachChildrenCall(parent) ==
    LET r == detach_children(world, parent)
    IN  /\ world' = r.w
        /\ last' = Call("detach_children", None, parent, r)
        /\ attached' = IF r.res = "Ok" THEN NoteDetachChildren(attached, parent)
                       ELSE attached
        /\ UNCHANGED overflow_checks

DetachAllCall(entity) ==
    LET r == detach_all(world, entity)
    IN  /\ world' = r.w
        /\ last' = Call("detach_all", entity, AttachedParent(attached, entity), r)
        /\ attached' = IF r.res = "Ok" THEN NoteDetachAll(attached, entity)
                       ELSE attached
        /\ UNCHANGED overflow_checks

DespawnAllCall(parent) ==
    LET r == despawn_all(world, parent)
    IN  /\ world' = r.w
        /\ last' = Call("despawn_all", parent, AttachedParent(attached, parent), r)
        /\ attached' = IF r.res = "Ok" THEN NoteDespawnAll(attached, parent)
                       ELSE attached
        /\ UNCHANGED overflow_checks

\* World::despawn, called on the table directly.
DespawnCall(entity) ==
    LET r == despawn(world, entity)
    IN  /\ world' = r.w
        /\ last' = Call("despawn", entity, AttachedParent(attached, entity),
                        Result(r.w, r.res, << >>))
        /\ attached' = IF r.res = "Ok" THEN NoteDespawn(attached, entity)
                       ELSE attached
        /\ UNCHANGED overflow_checks

DespawnChildrenCall(parent) ==
    LET r == despawn_children(world, parent)
    IN  /\ world' = r.w
        /\ last' = Call("despawn_children", None, parent, r)
        /\ attached' = IF r.res = "Ok" THEN NoteDespawnChildren(attached, parent)
                       ELSE attached
        /\ UNCHANGED overflow_checks

\* attach::<U>, a call made in the second tag: the history of attachment is
\* that of T and stays.
AttachOtherCall(child, parent) ==
    LET r == attach(OtherTag(world), child, parent)
    IN  /\ world' = OtherTag(r.w)
        /\ last' = Call("attach_other", child, parent, r)
        /\ UNCHANGED <<attached, overflow_checks>>

\* TreeBuilderClone::spawn; the call record keeps the builder and the node
\* spawned for it.
TreeSpawnCall(b) ==
    LET r == tree_spawn(world, b)
    IN  /\ world' = r.w
        /\ last' = [op |-> "tree_spawn", child |-> r.node.entity, parent |-> None,
                    res |-> r.res, ret |-> << r.node.entity >>,
                    builder |-> b, node |-> r.node]
        /\ attached' = IF r.res = "Ok" THEN NoteTree(attached, r.node)
                       ELSE attached
        /\ UNCHANGED overflow_checks

\* detach_all, whatever it returns: when it fails in its detach, the children
\* are detached all the same.
DetachAllAnyCall(entity) ==
    LET r == detach_all(world, entity)
    IN  /\ world' = r.w
        /\ last' = Call("detach_all", entity, AttachedParent(attached, entity), r)
        /\ attached' = IF r.res = "Ok" THEN NoteDetachAll(attached, entity)
                       ELSE IF detach_children(world, entity).res = "Ok"
                       THEN NoteDetachChildren(attached, entity)
                       ELSE attached
        /\ UNCHANGED overflow_checks

\* The documented precondition of attach: child is not attached, and parent
\* is neither child nor below child.
AttachAllowed(child, parent) ==
    /\ child # parent
    /\ ~IsAttached(attached, child)
    /\ child \notin AttachedAncestors(attached, parent, NumEntities)

\* The call returned Ok; calls are counted up to the limit of the run.
Succeeds(limit) ==
    /\ last'.res = "Ok"
    /\ calls < limit
    /\ calls' = calls + 1

----------------------------------------------------------------------------
\* The program: a table with some spawned entities, then calls that keep to
\* the documented preconditions and return Ok.

Init ==
    /\ \E k \in 1..NumEntities :
          world = [EmptyWorld EXCEPT !.entities = 1..k, !.spawned = k]
    /\ overflow_checks \in BOOLEAN
    /\ attached = [e \in Entity |-> << >>]
    /\ last = [op |-> "new", child |-> None, parent |-> None,
               res |-> "Ok", ret |-> << >>]
    /\ calls = 0

AttachWithin(limit) ==
    \E child \in world.entities, parent \in world.entities :
        AttachAllowed(child, parent) /\ AttachCall(child, parent) /\ Succeeds(limit)

AttachNewWithin(limit) ==
    \E parent \in world.entities :
        world.spawned < NumEntities /\ AttachNewCall(parent) /\ Succeeds(limit)

DetachWithin(limit) ==
    \E child \in world.entities :
        IsAttached(attached, child) /\ DetachCall(child) /\ Succeeds(limit)

Attach == AttachWithin(MaxCalls)

AttachNew == AttachNewWithin(MaxCalls)

Detach == DetachWithin(MaxCalls)

DetachChildren ==
    \E parent \in world.entities :
        DetachChildrenCall(parent) /\ Succeeds(MaxCalls)

DetachAll ==
    \E entity \in world.entities :
        DetachAllCall(entity) /\ Succeeds(MaxCalls)

Next == Attach \/ AttachNew \/ Detach \/ DetachChildren \/ DetachAll

Spec == Init /\ [][Next]_vars

\* Trees built solely by attach and attach_new.
NextBuild == Attach \/ AttachNew

SpecBuild == Init /\ [][NextBuild]_vars

\* Calls of attach, attach_new and detach only.
NextAttachDetach == Attach \/ AttachNew \/ Detach

SpecAttachDetach == Init /\ [][NextAttachDetach]_vars

\* The same calls, in longer runs.
AttachDeep == AttachWithin(MaxCallsDeep)

AttachNewDeep == AttachNewWithin(MaxCallsDeep)

DetachDeep == DetachWithin(MaxCallsDeep)

NextAttachDetachDeep == AttachDeep \/ AttachNewDeep \/ DetachDeep

SpecAttachDetachDeep == Init /\ [][NextAttachDetachDeep]_vars

\* The call was made, whatever it returned; calls are counted up to the limit.
Returns(limit) ==
    /\ calls < limit
    /\ calls' = calls + 1

\* No call has panicked or hung: the program is still running.
Running == last.res \notin {"Panic", "Cutoff"}

AttachTryWithin(limit) ==
    \E child \in world.entities, parent \in world.entities :
        /\ Running /\ AttachAllowed(child, parent)
        /\ AttachCall(child, parent) /\ Returns(limit)

AttachNewTryWithin(limit) ==
    \E parent \in world.entities :
        /\ Running /\ world.spawned < NumEntities
        /\ AttachNewCall(parent) /\ Returns(limit)

DetachTryWithin(limit) ==
    \E child \in world.entities :
        /\ Running /\ IsAttached(attached, child)
        /\ DetachCall(child) /\ Returns(limit)

DetachChildrenTryWithin(limit) ==
    \E parent \in world.entities :
        Running /\ DetachChildrenCall(parent) /\ Returns(limit)

DetachAllTryWithin(limit) ==
    \E entity \in world.entities :
        Running /\ DetachAllAnyCall(entity) /\ Returns(limit)

DespawnAllWithin(limit) ==
    \E parent \in world.entities :
        Running /\ DespawnAllCall(parent) /\ Returns(limit)

AttachTry == AttachTryWithin(MaxCalls)

AttachNewTry == AttachNewTryWithin(MaxCalls)

DetachTry == DetachTryWithin(MaxCalls)

DetachChildrenTry == DetachChildrenTryWithin(MaxCalls)

DetachAllTry == DetachAllTryWithin(MaxCalls)

DespawnAll == DespawnAllWithin(MaxCalls)

\* attach, attach_new, detach, detach_children and detach_all, with the calls
\* that fail.
NextDetachAll ==
    AttachTry \/ AttachNewTry \/ DetachTry \/ DetachChildrenTry \/ DetachAllTry

SpecDetachAll == Init /\ [][NextDetachAll]_vars

\* The same calls, in longer runs.
AttachNewTryDeep == AttachNewTryWithin(MaxCallsDeep)

DetachTryDeep == DetachTryWithin(MaxCallsDeep)

DetachChildrenTryDeep == DetachChildrenTryWithin(MaxCallsDeep)

DetachAllTryDeep == DetachAllTryWithin(MaxCallsDeep)

NextDetachAllDeep ==
    AttachNewTryDeep \/ DetachTryDeep \/ DetachChildrenTryDeep \/ DetachAllTryDeep

SpecDetachAllDeep == Init /\ [][NextDetachAllDeep]_vars

\* An entity is despawned through the table, without a detach.
Despawn ==
    \E entity \in world.entities :
        Running /\ DespawnCall(entity) /\ Returns(MaxCalls)

\* attach, attach_new, despawn_all and despawns made on the table directly.
NextDangling == AttachTry \/ AttachNewTry \/ Despawn \/ DespawnAll

SpecDangling == Init /\ [][NextDangling]_vars

\* The handles handed out so far, those of despawned entities among them.
Handles(w) == 1..w.spawned

\* attach with a handle of a despawned entity as child or as parent.
AttachGone ==
    \E child \in Handles(world), parent \in Handles(world) :
        /\ Running /\ child # parent
        /\ (child \notin world.entities \/ parent \notin world.entities)
        /\ AttachCall(child, parent) /\ Returns(MaxCalls)

\* attach_new to the handle of a despawned entity.
AttachNewGone ==
    \E parent \in Handles(world) \ world.entities :
        /\ Running /\ world.spawned < NumEntities
        /\ AttachNewCall(parent) /\ Returns(MaxCalls)

\* detach of a handle that is no child: never attached, detached, or despawned.
DetachLoose ==
    \E child \in Handles(world) :
        /\ Running /\ ~IsAttached(attached, child)
        /\ DetachCall(child) /\ Returns(MaxCalls)

\* detach_children, detach_all and despawn_children of any handle.
DetachChildrenAny ==
    \E parent \in Handles(world) :
        Running /\ DetachChildrenCall(parent) /\ Returns(MaxCalls)

DetachAllAny ==
    \E entity \in Handles(world) :
        Running /\ DetachAllAnyCall(entity) /\ Returns(MaxCalls)

DespawnChildrenAny ==
    \E parent \in Handles(world) :
        Running /\ DespawnChildrenCall(parent) /\ Returns(MaxCalls)

\* The calls that build and take down trees, and the calls made with handles
\* that do not fit.
NextMisuse ==
    \/ AttachTry \/ AttachNewTry \/ DetachTry \/ DespawnAll
    \/ AttachGone \/ AttachNewGone \/ DetachLoose
    \/ DetachChildrenAny \/ DetachAllAny \/ DespawnChildrenAny

SpecMisuse == Init /\ [][NextMisuse]_vars

\* Trees built by attach_new, taken apart and despawned, and attach calls made
\* with the handles of despawned entities.
NextGone ==
    \/ AttachNewTry \/ DetachTry \/ Despawn \/ DespawnAll
    \/ AttachGone \/ AttachNewGone

SpecGone == Init /\ [][NextGone]_vars

\* The documented precondition of attach, in the tree of tag U: no call
\* detaches in U, so the components of U say what is attached.
AttachOtherAllowed(child, parent) ==
    /\ child # parent
    /\ ~HasChild(OtherTag(world), child)
    /\ child \notin Range(CollectAncestors(OtherTag(world), parent).items)

\* The tree of U is built first, before any call in T, and in the order of
\* the handles: each entity is attached to one of those before it (the calls
\* in T take their entities in any order).
AttachOther ==
    \E child \in world.entities, parent \in world.entities :
        /\ Running /\ last.op \in {"new", "attach_other"}
        /\ parent < child
        /\ \A e \in 2..(child - 1) : HasChild(OtherTag(world), e)
        /\ AttachOtherAllowed(child, parent)
        /\ AttachOtherCall(child, parent) /\ Returns(MaxCallsTags)

AttachTryTags == AttachTryWithin(MaxCallsTags)

DetachTryTags == DetachTryWithin(MaxCallsTags)

DetachChildrenTryTags == DetachChildrenTryWithin(MaxCallsTags)

DetachAllTryTags == DetachAllTryWithin(MaxCallsTags)

\* Two trees over the same entities: attach in tag U, then attach, detach,
\* detach_children and detach_all in tag T.
NextTags ==
    \/ AttachOther \/ AttachTryTags \/ DetachTryTags
    \/ DetachChildrenTryTags \/ DetachAllTryTags

SpecTags == Init /\ [][NextTags]_vars

\* One child is detached and attached again, by turns to the entities 1 and
\* 2, which are in one tree.  The tree is built by attach_new first.
ReattachBuild ==
    last.op \in {"new", "attach_new"} /\ AttachNewTryDeep

\* The two parents: the first entity and the first entity attached to it.
TwoParents == {1, 2}

ReattachDetach ==
    \E c \in world.entities \ TwoParents :
        /\ Running
        /\ 2 \in Below(attached, 1)
        /\ AttachedParent(attached, c) \in TwoParents
        /\ last.op = "attach_new" \/ (last.op = "attach" /\ last.child = c)
        /\ DetachCall(c) /\ Returns(MaxCallsDeep)

ReattachAttach ==
    \E parent \in TwoParents \ {last.parent} :
        /\ Running /\ last.op = "detach"
        /\ AttachAllowed(last.child, parent)
        /\ AttachCall(last.child, parent) /\ Returns(MaxCallsDeep)

NextReattach == ReattachBuild \/ ReattachDetach \/ ReattachAttach

SpecReattach == Init /\ [][NextReattach]_vars

\* World::default(): the empty table.
InitEmpty ==
    /\ world = EmptyWorld
    /\ overflow_checks \in BOOLEAN
    /\ attached = [e \in Entity |-> << >>]
    /\ last = [op |-> "new", child |-> None, parent |-> None,
               res |-> "Ok", ret |-> << >>]
    /\ calls = 0

\* A builder of any shape that the entities left allow is spawned.
TreeSpawn ==
    \E n \in 1..(NumEntities - world.spawned) :
        \E b \in TreeBuilders(n) :
            Running /\ TreeSpawnCall(b) /\ Returns(MaxCalls)

\* Trees spawned by builders into a table in which entities are attached and
\* detached as well.
NextBuilder == TreeSpawn \/ AttachTry \/ DetachTry

SpecBuilder == InitEmpty /\ [][NextBuilder]_vars

\* attach, attach_new and despawn_all, with the calls that fail.
NextDespawn == AttachTry \/ AttachNewTry \/ DespawnAll

SpecDespawn == Init /\ [][NextDespawn]_vars

----------------------------------------------------------------------------
\* What the history of attachment says the traversals yield.

Done(items) == [items |-> items, status |-> "done"]

Descendants(att, r) ==
    {e \in Entity : r \in AttachedAncestors(att, e, NumEntities)}

RECURSIVE PreOrderOf(_, _)
PreOrderOf(att, seq) ==
    IF seq = << >> THEN << >>
    ELSE << Head(seq) >> \o PreOrderOf(att, att[Head(seq)]) \o PreOrderOf(att, Tail(seq))

PreOrder(att, r) == PreOrderOf(att, att[r])

RECURSIVE ChildrenOfAll(_, _)
ChildrenOfAll(att, seq) ==
    IF seq = << >> THEN << >>
    ELSE att[Head(seq)] \o ChildrenOfAll(att, Tail(seq))

RECURSIVE LevelOrderOf(_, _)
LevelOrderOf(att, level) ==
    IF level = << >> THEN << >>
    ELSE level \o LevelOrderOf(att, ChildrenOfAll(att, level))

LevelOrder(att, r) == LevelOrderOf(att, att[r])

Depth(att, e) == Cardinality(AttachedAncestors(att, e, NumEntities))

NoDuplicates(seq) == Cardinality(Range(seq)) = Len(seq)

NumChildren(w, e) == IF HasParent(w, e) THEN w.parents[e].num_children ELSE 0

\* The entities passed when Child<T>.next is followed n times from c, c first
\* (None from the point where an entity yields no Child<T>).
RECURSIVE FollowNext(_, _, _)
FollowNext(w, c, n) ==
    IF n = 0 THEN << c >>
    ELSE IF ~HasChild(w, c) THEN << c, None >>
    ELSE << c >> \o FollowNext(w, w.children[c].next, n - 1)

----------------------------------------------------------------------------
\* C1: after successful attach, attach_new and detach calls, children::<T>(p)
\* yields exactly the entities attached to p and not detached since, each
\* once, in the order in which they were attached.
C1_ChildrenAreTheAttached ==
    \A p \in world.entities :
        CollectChildren(world, p) = Done(attached[p])

\* C2: after every successful mutation an entity holds Parent<T> if and only
\* if it has at least one child, and then num_children >= 1; the Parent<T> of
\* a parent whose last child was detached is gone.
C2_ParentIffHasChildren ==
    \A e \in world.entities :
        /\ HasParent(world, e) <=> attached[e] # << >>
        /\ HasParent(world, e) => world.parents[e].num_children >= 1

\* C3: an entity holds Child<T> exactly while it is attached; after detach(c)
\* returned Ok, c holds no Child<T>, parent::<T>(c) is Err(MissingComponent)
\* and ancestors::<T>(c) yields nothing.
C3_ChildIffAttached ==
    /\ \A e \in world.entities :
          HasChild(world, e) <=> IsAttached(attached, e)
    /\ (last.op = "detach" /\ last.res = "Ok") =>
          /\ ~HasChild(world, last.child)
          /\ parent_of(world, last.child) =
                [res |-> "MissingComponent", ret |-> None]
          /\ CollectAncestors(world, last.child) = Done(<< >>)

\* C4: for every entity p holding Parent<T>, following Child<T>.next exactly
\* num_children times from any current child of p returns to that child, and
\* the entities passed are exactly the current children of p.
C4_SiblingsFormOneCycle ==
    \A p \in DOMAIN world.parents :
        \A c \in Range(attached[p]) :
            /\ world.parents[p].num_children <= NumEntities
            /\ LET walk == FollowNext(world, c, world.parents[p].num_children)
               IN  /\ walk[Len(walk)] = c
                   /\ Range(walk) = Range(attached[p])
                   /\ Len(walk) = Len(attached[p]) + 1

\* C5: for every entity p holding Parent<T>, num_children is the number of
\* entities whose Child<T>.parent is p.
C5_NumChildrenCountsChildren ==
    \A p \in DOMAIN world.parents :
        world.parents[p].num_children =
            Cardinality({e \in DOMAIN world.children :
                            world.children[e].parent = p})

C7_DetachRemovesOneChild ==
    [][(last'.op = "detach" /\ calls' = calls + 1) =>
          LET c == last'.child
              p == last'.parent
              was == CollectChildren(world, p)
              now == CollectChildren(world', p)
              remains(x) == x \in Range(attached'[p])
          IN  /\ now.status = "done"
              /\ c \notin Range(now.items)
              /\ NumChildren(world', p) = NumChildren(world, p) - 1
              /\ SelectSeq(now.items, remains) = SelectSeq(was.items, remains)]_vars

\* The subtree of c is what the calls made it: children::<T> yields the
\* attached entities for c and for every entity below c.
SubtreeIntact(w, att, c) ==
    \A e \in {c} \cup Descendants(att, c) :
        CollectChildren(w, e) = Done(att[e])

\* C8: detach::<T>(c) leaves children::<T> of c and of every entity below c
\* unchanged, and an attach::<T>(c, q) that follows under another parent q
\* leaves them unchanged too (the grandchildren are still children of c), and
\* leaves the children of the former parent of c in their order.  Stated for
\* the calls made when the subtree of c is intact.
C8_SubtreeMovesAsAUnit ==
    [][/\ (/\ last'.op = "detach" /\ calls' = calls + 1
           /\ SubtreeIntact(world, attached, last'.child)) =>
             \A e \in {last'.child} \cup Descendants(attached, last'.child) :
                 CollectChildren(world', e) = CollectChildren(world, e)
       /\ (/\ last.op = "detach"
           /\ last'.op = "attach" /\ calls' = calls + 1
           /\ last'.child = last.child
           /\ last'.parent # last.parent
           /\ SubtreeIntact(world, attached, last.child)) =>
             /\ \A e \in {last.child} \cup Descendants(attached, last.child) :
                    CollectChildren(world', e) = CollectChildren(world, e)
             /\ CollectChildren(world', last.parent) =
                    CollectChildren(world, last.parent)]_vars

\* C9: for a tree built by attach and attach_new alone,
\* descendants_depth_first::<T>(r) yields every descendant of r once and
\* nothing else, in pre-order, as many items as r has descendants.
C9_DepthFirstIsPreOrder ==
    \A r \in world.entities :
        LET dfs == CollectDepthFirst(world, r)
        IN  /\ dfs = Done(PreOrder(attached, r))
            /\ Range(dfs.items) = Descendants(attached, r)
            /\ Len(dfs.items) = Cardinality(Descendants(attached, r))
            /\ r \notin Range(dfs.items)

\* C9 happens: a walk that descends below a first child before it yields the
\* next sibling.
C9_Witness ==
    \E r \in world.entities :
        LET dfs == CollectDepthFirst(world, r)
        IN  /\ Len(dfs.items) = 3
            /\ attached[r] = << dfs.items[1], dfs.items[3] >>
            /\ attached[dfs.items[1]] = << dfs.items[2] >>

\* C10: for a tree built by attach and attach_new, descendants_breadth_first
\* yields every descendant of r once, level by level: depth d before depth
\* d+1, the children of a parent together in children order, the groups in
\* the order of their parents.
C10_BreadthFirstIsLevelOrder ==
    \A r \in world.entities :
        LET bfs == CollectBreadthFirst(world, r)
        IN  /\ bfs = Done(LevelOrder(attached, r))
            /\ Range(bfs.items) = Descendants(attached, r)
            /\ NoDuplicates(bfs.items)
            /\ \A i \in 1..Len(bfs.items), j \in 1..Len(bfs.items) :
                   i < j => Depth(attached, bfs.items[i]) <= Depth(attached, bfs.items[j])

\* C10 happens: a walk in which level order and pre-order differ.
C10_Witness ==
    \E r \in world.entities :
        LET bfs == CollectBreadthFirst(world, r)
        IN  /\ Len(bfs.items) = 3
            /\ attached[r] = << bfs.items[1], bfs.items[2] >>
            /\ attached[bfs.items[1]] = << bfs.items[3] >>
            /\ bfs.items # CollectDepthFirst(world, r).items

\* The entities e is attached under, nearest first.
RECURSIVE AttachedChain(_, _, _)
AttachedChain(att, e, n) ==
    LET q == AttachedParent(att, e)
    IN  IF q = None \/ n = 0 THEN << >>
        ELSE << q >> \o AttachedChain(att, q, n - 1)

\* C11: ancestors::<T>(e) yields the parent of e, then the parent of that
\* parent, and so on, nearest first, down to and including the top-most entity
\* of the tree of e, and never e itself; for a chain r -> c1 -> ... -> cn,
\* ancestors(cn) is [c(n-1), ..., c1, r].
C11_AncestorsNearestFirst ==
    \A e \in world.entities :
        LET anc == CollectAncestors(world, e)
        IN  /\ anc = Done(AttachedChain(attached, e, NumEntities))
            /\ e \notin Range(anc.items)

\* C12, as stated: ancestors::<T>(e) stops before the root of the tree of e;
\* the entity that holds no Child<T> is never among the items.
C12_RootNeverYielded ==
    \A e \in world.entities :
        \A x \in Range(CollectAncestors(world, e).items) : HasChild(world, x)

\* C12, amended: ancestors::<T>(e) yields each ancestor of e up to and
\* including the root; for an e that holds Child<T>, the entity that holds no
\* Child<T>, where the parent chain ends, is the last item and the only such
\* item.
C12_RootYieldedLast ==
    \A e \in world.entities :
        LET anc == CollectAncestors(world, e)
            n == Len(anc.items)
        IN  (HasChild(world, e) /\ anc.status = "done") =>
                /\ n >= 1
                /\ ~HasChild(world, anc.items[n])
                /\ \A i \in 1..(n - 1) : HasChild(world, anc.items[i])

\* C12 happens: a walk over two ancestors that ends at the root.
C12_Witness ==
    \E e \in world.entities :
        LET anc == CollectAncestors(world, e)
        IN  /\ anc.status = "done" /\ Len(anc.items) = 2
            /\ anc.items = AttachedChain(attached, e, NumEntities)
            /\ ~HasChild(world, anc.items[2])

\* C14: in every state reached by attach, attach_new and detach, roots::<T>()
\* returns exactly the entities that have at least one child and are not a
\* child themselves: the root of each tree once, and no other entity.
C14_RootsAreTheTreeRoots ==
    roots(world) =
        {e \in world.entities :
            attached[e] # << >> /\ ~IsAttached(attached, e)}

\* What the history of attachment says visit yields when accept is put to the
\* descendants only: pre-order, without the rejected and what is below them.
RECURSIVE FilteredPreOrderOf(_, _, _)
FilteredPreOrderOf(att, seq, accept) ==
    IF seq = << >> THEN << >>
    ELSE (IF Head(seq) \in accept
          THEN << Head(seq) >> \o FilteredPreOrderOf(att, att[Head(seq)], accept)
          ELSE << >>)
         \o FilteredPreOrderOf(att, Tail(seq), accept)

\* The entities at or below the rejected ones.
BelowRejected(att, r, accept) ==
    {d \in Below(att, r) :
        \E x \in (Below(att, r) \ accept) : d = x \/ d \in Below(att, x)}

RECURSIVE DepthFirstWalk(_, _, _, _)
DepthFirstWalk(w, stack, out, fuel) ==
    LET r == DepthFirstIteratorNext(w, stack)
        depth == IF HasParent(w, r.item) THEN Len(r.stack) - 1 ELSE Len(r.stack)
    IN  IF r.panic THEN [items |-> out, status |-> "panic"]
        ELSE IF r.item = None THEN [items |-> out, status |-> "done"]
        ELSE IF fuel = 0 THEN [items |-> out, status |-> "cutoff"]
        ELSE DepthFirstWalk(w, r.stack,
                            Append(out, [entity |-> r.item, depth |-> depth]),
                            fuel - 1)

\* A walk without the rejected entities and without what the walk yields
\* below them (cut: the depth of the rejected entity that is being passed, 0
\* for none); asks tells whether the rejected entities themselves are kept.
RECURSIVE PruneWalk(_, _, _, _)
PruneWalk(walk, accept, cut, asks) ==
    IF walk = << >> THEN << >>
    ELSE LET h == Head(walk)
         IN  IF cut # 0 /\ h.depth > cut
             THEN PruneWalk(Tail(walk), accept, cut, asks)
             ELSE IF h.entity \in accept
             THEN << h.entity >> \o PruneWalk(Tail(walk), accept, 0, asks)
             ELSE (IF asks THEN << h.entity >> ELSE << >>)
                  \o PruneWalk(Tail(walk), accept, h.depth, asks)

C15_DetachChildrenLoosensAll ==
    [][(/\ last'.op = "detach_children" /\ calls' = calls + 1
        /\ HasParent(world, last'.parent)) =>
          LET p == last'.parent
              was == CollectChildren(world, p)
          IN  /\ last'.res = "Ok"
              /\ was.status = "done"
              /\ last'.ret = was.items
              /\ ~HasParent(world', p)
              /\ CollectChildren(world', p) = Done(<< >>)
              /\ \A c \in Range(last'.ret) :
                     /\ ~HasChild(world', c)
                     /\ CollectChildren(world', c) = CollectChildren(world, c)
                     /\ HasParent(world', c) <=> HasParent(world, c)
                     /\ \A g \in Range(CollectChildren(world', c).items) :
                            parent_of(world', g) = [res |-> "Ok", ret |-> c]]_vars

\* C16: for a live entity e that has children, is attached, or both,
\* detach_all::<T>(e) returns Ok and leaves e with neither Parent<T> nor
\* Child<T>; the former children of e hold no Child<T>, and the former parent
\* of e no longer yields e among its children.
C16_DetachAllLeavesSingleton ==
    [][(/\ last'.op = "detach_all" /\ calls' = calls + 1
        /\ (attached[last'.child] # << >> \/ IsAttached(attached, last'.child))) =>
          LET e == last'.child
          IN  /\ last'.res = "Ok"
              /\ ~HasParent(world', e)
              /\ ~HasChild(world', e)
              /\ \A c \in Range(attached[e]) : ~HasChild(world', c)
              /\ last'.parent # None =>
                     e \notin Range(CollectChildren(world', last'.parent).items)]_vars

\* C17: despawn_all::<T>(p) removes p and every descendant of p, at every
\* depth, from the table, and despawns no entity outside the subtree of p.
C17_DespawnAllRemovesSubtree ==
    [][(last'.op = "despawn_all" /\ calls' = calls + 1) =>
          LET p == last'.child
          IN  /\ last'.res = "Ok"
              /\ world'.entities =
                     world.entities \ ({p} \cup Below(attached, p))]_vars

\* C18: after despawn_all::<T>(p) returned, no live entity holds a Parent<T>
\* whose last_child is despawned, nor a Child<T> whose parent, next or prev is
\* despawned; so too for the former parent of p when p was its only child.
C18_NoDanglingAfterDespawnAll ==
    (last.op = "despawn_all" /\ last.res = "Ok") =>
        /\ \A e \in DOMAIN world.parents :
               world.parents[e].last_child \in world.entities
        /\ \A e \in DOMAIN world.children :
               /\ world.children[e].parent \in world.entities
               /\ world.children[e].next \in world.entities
               /\ world.children[e].prev \in world.entities

\* C19: after despawn_all::<T>(x) of an entity x below r (also an x that was
\* the only child of its parent), descendants_depth_first::<T>(r) ends without
\* a panic and yields the surviving descendants of r in the pre-order they had,
\* without x and what was below x.
C19_DepthFirstAfterDespawnAll ==
    [][(last'.op = "despawn_all" /\ calls' = calls + 1) =>
          LET x == last'.child
              gone == {x} \cup Below(attached, x)
          IN  \A r \in AttachedAncestors(attached, x, NumEntities) :
                  CollectDepthFirst(world', r) =
                      Done(SelectSeq(PreOrder(attached, r),
                                     LAMBDA d : d \notin gone))]_vars

\* C20: after despawn_all::<T>(c) of the only child c of p, the attach_new
\* under p that follows returns Ok(c2); children::<T>(p).count() is then 1 and
\* descendants_depth_first::<T>(p) yields [c2].
C20_AttachNewAfterDespawnOfOnlyChild ==
    [][(/\ last.op = "despawn_all" /\ last.res = "Ok"
        /\ last.parent # None /\ attached[last.parent] = << >>
        /\ last'.op = "attach_new" /\ calls' = calls + 1
        /\ last'.parent = last.parent) =>
          LET p == last'.parent
              c2 == last'.child
          IN  /\ last'.res = "Ok"
              /\ last'.ret = << c2 >>
              /\ ChildrenIterCount(children(world', p)) = 1
              /\ CollectDepthFirst(world', p) = Done(<< c2 >>)]_vars

\* No Parent<T> counts 0 children: none is one that a detach left behind.
NoParentLeftBehind(w) ==
    \A e \in DOMAIN w.parents : w.parents[e].num_children >= 1

\* C21: despawn_all::<T>(p) ends without failing or panicking and despawns p,
\* also when links below p name entities that were despawned through the
\* table.
C21_DespawnAllToleratesDangling ==
    [][(/\ last'.op = "despawn_all" /\ calls' = calls + 1
        /\ NoParentLeftBehind(world)) =>
          /\ last'.res = "Ok"
          /\ last'.child \notin world'.entities]_vars

----------------------------------------------------------------------------
\* C22: no mutation operation panics on expected misuse.  When a call of
\* attach, attach_new, detach, detach_children, detach_all or despawn_children
\* is given a despawned handle, or a live entity that lacks the Parent<T> or
\* Child<T> the operation works on, it returns an error or an empty result.

\* The call just made was given a handle that does not fit the operation.
ExpectedMisuse ==
    \/ /\ last'.op = "attach"
       /\ (last'.child \notin world.entities \/ last'.parent \notin world.entities)
    \/ last'.op = "attach_new" /\ last'.parent \notin world.entities
    \/ last'.op = "detach" /\ ~HasChild(world, last'.child)
    \/ /\ last'.op \in {"detach_children", "despawn_children"}
       /\ ~HasParent(world, last'.parent)
    \/ /\ last'.op = "detach_all"
       /\ (~HasParent(world, last'.child) \/ ~HasChild(world, last'.child))

C22_NoPanicOnMisuse ==
    [][(calls' = calls + 1 /\ ExpectedMisuse)
       => \/ last'.res \in {"NoSuchEntity", "MissingComponent"}
          \/ last'.res = "Ok" /\ last'.ret = << >>]_vars

----------------------------------------------------------------------------
\* C23: every traversal treats a failed lookup of a Child<T> it follows as a
\* silent end of the walk: next() returns None and never panics.  children,
\* ancestors and the breadth first walk have no panicking step; the depth
\* first walk and visit (here with a function that accepts everything) must
\* not panic either, from whatever live entity they start.
C23_TraversalsNeverPanic ==
    Running =>
        \A r \in world.entities :
            /\ CollectDepthFirst(world, r).status # "panic"
            /\ CollectVisit(world, r, Entity).status # "panic"

----------------------------------------------------------------------------
\* C24: detach of a live entity that is no child of any parent (never
\* attached, or detached already) returns MissingComponent and leaves every
\* Parent<T> and Child<T> as it was.
C24_DetachOfLooseEntityFails ==
    [][(/\ last'.op = "detach" /\ calls' = calls + 1
        /\ last'.child \in world.entities
        /\ ~IsAttached(attached, last'.child))
       => /\ last'.res = "MissingComponent"
          /\ world'.parents = world.parents
          /\ world'.children = world.children]_vars

----------------------------------------------------------------------------
\* C25: attach returns an error of kind NoSuchEntity or MissingComponent,
\* never Ok, when child or parent is the handle of no live entity; attach_new
\* with such a parent fails with the same kinds.
C25_AttachOfDespawnedFails ==
    [][(/\ calls' = calls + 1
        /\ \/ /\ last'.op = "attach"
              /\ (last'.child \notin world.entities
                  \/ last'.parent \notin world.entities)
           \/ last'.op = "attach_new" /\ last'.parent \notin world.entities)
       => last'.res \in {"NoSuchEntity", "MissingComponent"}]_vars

\* A despawned child was attached to a live parent that has children, and the
\* call failed.
C25_Witness ==
    /\ last.op = "attach" /\ last.res = "NoSuchEntity"
    /\ last.child \notin world.entities
    /\ last.parent \in world.entities
    /\ HasParent(world, last.parent)
    /\ attached[last.parent] # << >>

----------------------------------------------------------------------------
\* C26: hierarchies of different tags are independent.  attach, detach,
\* detach_children and detach_all on tag T leave every Parent<U> and Child<U>
\* unchanged, and children, parent and every traversal of U give the same
\* results before and after.

\* What the queries of a tag yield, for every entity, on the table w.
TraversalsOf(w) ==
    [e \in Entity |->
        [children |-> CollectChildren(w, e),
         count |-> ChildrenIterCount(children(w, e)),
         parent |-> parent_of(w, e),
         ancestors |-> CollectAncestors(w, e),
         depth_first |-> CollectDepthFirst(w, e),
         breadth_first |-> CollectBreadthFirst(w, e),
         visit |-> CollectVisit(w, e, Entity)]]

C26_TagsAreIndependent ==
    [][(/\ calls' = calls + 1
        /\ last'.op \in {"attach", "detach", "detach_children", "detach_all"})
       => /\ world'.other = world.other
          /\ TraversalsOf(OtherTag(world')) = TraversalsOf(OtherTag(world))
          /\ roots(OtherTag(world')) = roots(OtherTag(world))]_vars

\* detach_children::<T> has detached an entity that is a child in the tree of
\* U as well, and still is.
C26_Witness ==
    /\ last.op = "detach_children" /\ last.res = "Ok"
    /\ \E c \in Range(last.ret) :
          /\ HasChild(OtherTag(world), c)
          /\ CollectAncestors(OtherTag(world), c).items # << >>

----------------------------------------------------------------------------
\* C27: for every entity p that holds Parent<T>, children::<T>(p) yields
\* exactly p.num_children entities, and at every point of the walk size_hint
\* and count() equal the number of entities still to be yielded.

\* From the iterator it on, the count says what is still yielded.
RECURSIVE HintIsExact(_, _, _)
HintIsExact(w, it, fuel) ==
    LET rest == ChildrenCollect(w, it, << >>, IterFuel)
        r == ChildrenIterNext(w, it)
    IN  /\ rest.status = "done"
        /\ ChildrenIterCount(it) = Len(rest.items)
        /\ (r.item # None /\ fuel > 0) => HintIsExact(w, r.it, fuel - 1)

C27_ChildrenYieldsNumChildren ==
    Running =>
        \A p \in DOMAIN world.parents :
            LET c == CollectChildren(world, p)
            IN  /\ c.status = "done"
                /\ Len(c.items) = world.parents[p].num_children
                /\ HintIsExact(world, children(world, p), IterFuel)

----------------------------------------------------------------------------
\* C28: children::<T>(e) on a live entity e that holds no Parent<T> yields an
\* empty sequence with count 0; it neither fails nor panics.
C28_ChildrenOfNoParentIsEmpty ==
    \A e \in world.entities :
        ~HasParent(world, e) =>
            /\ CollectChildren(world, e) = Done(<< >>)
            /\ ChildrenIterCount(children(world, e)) = 0
            /\ ChildrenIterNext(world, children(world, e)).item = None

\* An attached leaf: it holds Child<T> and no Parent<T>, and its children
\* are asked for.
C28_Witness ==
    \E e \in world.entities :
        /\ ~HasParent(world, e) /\ HasChild(world, e)
        /\ IsAttached(attached, e)
        /\ CollectChildren(world, e).items = << >>

----------------------------------------------------------------------------
\* C29: over an unchanging table, exhaustion is terminal for every traversal
\* iterator: once next() has returned None, every later call returns None.

\* The n calls of next() that follow all return None.
RECURSIVE StaysNone(_, _, _)
StaysNone(w, it, n) ==
    \/ n = 0
    \/ LET r == IteratorNext(w, it)
       IN  /\ r.status = "done" /\ r.item = None
           /\ StaysNone(w, r.it, n - 1)

\* The iterators a caller can make for the entity e; visit with a function
\* that accepts everything, or everything but one entity.
IteratorsOf(w, e) ==
    {ChildrenOf(w, e), AncestorsOf(w, e), DepthFirstOf(w, e)}
    \cup {VisitOf(w, e, Entity \ skip) : skip \in {{}} \cup {{x} : x \in Entity}}
    \cup (IF BreadthFirstIteratorNew(w, e).status = "done"
          THEN {BreadthFirstOf(w, e)} ELSE {})

C29_ExhaustionIsTerminal ==
    \A e \in world.entities :
        \A it \in IteratorsOf(world, e) :
            LET x == Exhaust(world, it, IterFuel)
            IN  x.ended => StaysNone(world, x.it, NumEntities + 1)

\* A walk of children that yielded an entity and then ended on a failed
\* lookup, with its count not yet used up.
C29_Witness ==
    \E e \in world.entities :
        LET x == Exhaust(world, ChildrenOf(world, e), IterFuel)
        IN  /\ x.ended /\ x.it.state.remaining > 0
            /\ x.it.state.current # children(world, e).current

----------------------------------------------------------------------------
\* C30: when one child is detached and attached again and again, by turns to
\* two parents of one tree, every call returns Ok and afterwards the depth
\* first walk from the root ends without a panic and yields each attached
\* descendant exactly once.
C30_ReattachKeepsDepthFirst ==
    last.op \in {"detach", "attach"} =>
        /\ last.res = "Ok"
        /\ \A r \in world.entities :
              (~IsAttached(attached, r) /\ TwoParents \subseteq {r} \cup Below(attached, r)) =>
                  LET d == CollectDepthFirst(world, r)
                  IN  /\ d.status = "done"
                      /\ NoDuplicates(d.items)
                      /\ Range(d.items) = Descendants(attached, r)

----------------------------------------------------------------------------
\* C31: in every state reached by attach, attach_new and detach calls in
\* which no attach places an entity under itself or under one of its
\* descendants, no entity is its own ancestor along the parent links, and
\* ancestors(e) and root(e) end for every entity e.
C31_NoEntityIsItsOwnAncestor ==
    \A e \in world.entities :
        LET a == CollectAncestors(world, e)
        IN  /\ a.status = "done"
            /\ e \notin Range(a.items)
            /\ root(world, e).res # "Cutoff"

----------------------------------------------------------------------------
\* C32: TreeBuilderClone::spawn creates one entity per builder node and
\* returns the entity of the root node; for every node, children::<T> of its
\* entity are the entities of its child builders in the order they were
\* attached to the builder.  As stated: so the depth first and the breadth
\* first traversal of the returned root both yield the nodes in declaration
\* order.

\* The entities of the nodes in declaration order, the root left out: that of
\* a node, then those of its children with all below them, in turn.
RECURSIVE DeclaredBelow(_), DeclaredForest(_)
DeclaredBelow(node) == DeclaredForest(node.children)

DeclaredForest(nodes) ==
    IF nodes = << >> THEN << >>
    ELSE << Head(nodes).entity >> \o DeclaredBelow(Head(nodes))
         \o DeclaredForest(Tail(nodes))

\* The entities of the nodes level by level, in declaration order within a
\* level.
RECURSIVE ChildNodes(_), DeclaredLevels(_)
ChildNodes(nodes) ==
    IF nodes = << >> THEN << >>
    ELSE Head(nodes).children \o ChildNodes(Tail(nodes))

DeclaredLevels(nodes) ==
    IF nodes = << >> THEN << >>
    ELSE [i \in 1..Len(nodes) |-> nodes[i].entity]
         \o DeclaredLevels(ChildNodes(nodes))

\* The node has the shape of the builder.
RECURSIVE NodeOfBuilder(_, _)
NodeOfBuilder(node, b) ==
    /\ Len(node.children) = Len(b.children)
    /\ \A i \in 1..Len(b.children) : NodeOfBuilder(node.children[i], b.children[i])

\* Every node of the tree has the entities of its child nodes as children.
RECURSIVE ChildrenAsBuilt(_, _)
ChildrenAsBuilt(w, node) ==
    /\ CollectChildren(w, node.entity) =
           Done([i \in 1..Len(node.children) |-> node.children[i].entity])
    /\ \A i \in 1..Len(node.children) : ChildrenAsBuilt(w, node.children[i])

\* One entity per node, the root returned, the children as built.
SpawnedAsBuilt ==
    /\ last.res = "Ok"
    /\ NodeOfBuilder(last.node, last.builder)
    /\ last.ret = << last.node.entity >>
    /\ LET all == << last.node.entity >> \o DeclaredBelow(last.node)
       IN  /\ NoDuplicates(all)
           /\ Len(all) = BuilderSize(last.builder)
           /\ Range(all) = world.entities \ (1..(world.spawned - Len(all)))
    /\ ChildrenAsBuilt(world, last.node)

C32_BuilderTraversalsInDeclarationOrder ==
    last.op = "tree_spawn" =>
        /\ SpawnedAsBuilt
        /\ CollectDepthFirst(world, last.node.entity) = Done(DeclaredBelow(last.node))
        /\ CollectBreadthFirst(world, last.node.entity) = Done(DeclaredBelow(last.node))

\* C32 as amended: the same, but the breadth first traversal yields the nodes
\* level by level (in declaration order within a level), the depth first one
\* in declaration order.
C32_BuilderTraversalsPreOrderAndLevelOrder ==
    last.op = "tree_spawn" =>
        /\ SpawnedAsBuilt
        /\ CollectDepthFirst(world, last.node.entity) = Done(DeclaredBelow(last.node))
        /\ CollectBreadthFirst(world, last.node.entity) =
               Done(DeclaredLevels(last.node.children))

\* A builder was spawned whose first child has a child and is followed by a
\* second child: declaration order and level order differ.
C32_Witness ==
    /\ last.op = "tree_spawn" /\ last.res = "Ok"
    /\ Len(last.builder.children) >= 2
    /\ last.builder.children[1].children # << >>
    /\ DeclaredBelow(last.node) # DeclaredLevels(last.node.children)

----------------------------------------------------------------------------
\* C33: after every mutation that returned successfully, for every entity p
\* that holds Parent<T>, last_child names a live entity that is a child of p
\* now (detach repoints it to a remaining sibling when it removes it).
C33_LastChildIsACurrentChild ==
    last.res = "Ok" =>
        \A p \in DOMAIN world.parents :
            LET l == world.parents[p].last_child
            IN  /\ l \in world.entities
                /\ HasChild(world, l)
                /\ AttachedParent(attached, l) = p

----------------------------------------------------------------------------
\* C34: after successful attach, attach_new and detach calls the sibling
\* links are consistent: for every attached entity c, next(c) and prev(c) are
\* attached entities with the parent of c, prev(next(c)) = c and
\* next(prev(c)) = c; a sole child has next = prev = itself.
C34_SiblingLinksAreConsistent ==
    \A c \in world.entities :
        IsAttached(attached, c) =>
            /\ HasChild(world, c)
            /\ LET q == AttachedParent(attached, c)
                   n == world.children[c].next
                   v == world.children[c].prev
               IN  /\ AttachedParent(attached, n) = q
                   /\ AttachedParent(attached, v) = q
                   /\ HasChild(world, n) /\ world.children[n].prev = c
                   /\ HasChild(world, v) /\ world.children[v].next = c
                   /\ Len(attached[q]) = 1 => (n = c /\ v = c)

----------------------------------------------------------------------------
\* C35: num_children never underflows.  In no sequence of attach, attach_new,
\* detach, detach_children and despawn_all calls, a detach called twice on
\* the same entity included, does detach run its num_children -= 1 on a
\* Parent<T> whose num_children is 0.

\* detach of child on the table w reaches the decrement with num_children = 0
\* (the call then panics, or returns Ok with the count wrapped).
Underflows(w, child) ==
    /\ HasChild(w, child)
    /\ LET r == detach(w, child)
           q == w.children[child].parent
       IN  \/ r.res = "Panic"
           \/ r.res = "Ok" /\ w.parents[q].num_children = 0

C35_NumChildrenNeverUnderflows ==
    [][(calls' = calls + 1)
       => /\ last'.op = "detach" => ~Underflows(world, last'.child)
          /\ (/\ last'.op = "despawn_all"
              /\ CollectDepthFirst(world, last'.child).status = "done")
             => ~Underflows(world, last'.child)]_vars

----------------------------------------------------------------------------
\* C36: attach is all-or-nothing.  When attach or attach_new returns an
\* error, no Parent<T> and no Child<T> of any entity has been created or
\* modified: the tables of both components are as before the call.
C36_FailedAttachChangesNothing ==
    [][(/\ calls' = calls + 1
        /\ last'.op \in {"attach", "attach_new"}
        /\ last'.res \notin {"Ok", "Panic"})
       => /\ world'.parents = world.parents
          /\ world'.children = world.children]_vars

----------------------------------------------------------------------------
\* Trees built by attach and attach_new, and despawn_children of any handle.
NextDespawnChildren == AttachTry \/ AttachNewTry \/ DespawnChildrenAny

SpecDespawnChildren == Init /\ [][NextDespawnChildren]_vars

\* C37: despawn_children::<T>(p) on an entity p holding Parent<T> despawns
\* every descendant of p in hierarchy T, its children and all deeper levels,
\* leaves p live without Parent<T>, and despawns no entity outside the
\* subtree of p.
C37_DespawnChildrenDespawnsSubtree ==
    [][(/\ calls' = calls + 1
        /\ last'.op = "despawn_children"
        /\ HasParent(world, last'.parent))
       => LET p == last'.parent
          IN  /\ last'.res = "Ok"
              /\ Below(attached, p) \cap world'.entities = {}
              /\ p \in world'.entities
              /\ ~HasParent(world', p)
              /\ (world.entities \ world'.entities) \subseteq Below(attached, p)]_vars

----------------------------------------------------------------------------
\* C38: with a predicate that accepts every entity, visit::<T>(r, accept)
\* yields exactly the same sequence as descendants_depth_first::<T>(r), and
\* ends the same way, for every start entity r and every state reachable via
\* attach, attach_new and detach.
C38_VisitAcceptingAllIsDepthFirst ==
    \A r \in Handles(world) :
        LET v == CollectVisit(world, r, Entity)
            d == CollectDepthFirst(world, r)
        IN  /\ v.items = d.items
            /\ v.status = d.status

\* A detach has acted and both walks yield two levels from one start entity.
C38_Witness ==
    /\ last.op = "detach" /\ last.res = "Ok"
    /\ \E r \in world.entities :
           LET v == CollectVisit(world, r, Entity)
           IN  /\ v.status = "done"
               /\ v.items = CollectDepthFirst(world, r).items
               /\ \E i \in 1..Len(v.items) : \E j \in 1..Len(v.items) :
                      /\ i < j
                      /\ HasChild(world, v.items[j])
                      /\ world.children[v.items[j]].parent = v.items[i]

----------------------------------------------------------------------------
\* C39: root::<T>(e) returns the top-most ancestor of e, the entity reached by
\* following parent links that is not currently a child of any entity; for a
\* live entity that is not currently attached (never attached, or detached) it
\* returns e itself, and for a despawned e it returns Err.

\* The top of the chain of parents of e in the history of attachment.
RECURSIVE AttachedRoot(_, _, _)
AttachedRoot(att, e, fuel) ==
    IF fuel = 0 \/ ~IsAttached(att, e) THEN e
    ELSE AttachedRoot(att, AttachedParent(att, e), fuel - 1)

C39_RootIsTopMostAncestor ==
    \A e \in Handles(world) :
        LET r == root(world, e)
        IN  IF e \in world.entities
            THEN /\ r.res = "Ok"
                 /\ r.ret = AttachedRoot(attached, e, NumEntities)
            ELSE r.res \notin {"Ok", "Panic", "Cutoff"}

----------------------------------------------------------------------------
\* C40: attach::<T>(child, parent) modifies only the Parent<T> of parent, the
\* Child<T> of child, and the next/prev links of the current first and last
\* children of parent; the Child<T> of any entity that is a child of a
\* different parent, and the parent field of every other entity, are left
\* unchanged.

\* The components of e are the same in w and v.
SameParent(w, v, e) ==
    /\ HasParent(w, e) <=> HasParent(v, e)
    /\ HasParent(w, e) => w.parents[e] = v.parents[e]

SameChild(w, v, e) ==
    /\ HasChild(w, e) <=> HasChild(v, e)
    /\ HasChild(w, e) => w.children[e] = v.children[e]

C40_AttachTouchesOnlyItsNeighbours ==
    [][(/\ calls' = calls + 1
        /\ last'.op \in {"attach", "attach_new"})
       => LET c == last'.child
              p == last'.parent
              sibs == attached[p]
              ends == IF sibs = << >> THEN {}
                      ELSE {sibs[1], sibs[Len(sibs)]}
          IN  /\ \A e \in Entity \ {p} : SameParent(world, world', e)
              /\ \A e \in Entity \ ({c} \cup ends) : SameChild(world, world', e)
              /\ \A e \in ends \ {c} :
                     /\ HasChild(world, e) <=> HasChild(world', e)
                     /\ HasChild(world, e)
                        => world'.children[e].parent = world.children[e].parent]_vars

====
